---- MODULE Spec2Model ----
(***************************************************************************)
(* The inline asset pipeline of trunk (src/pipelines/inline.rs): the       *)
(* construction of an Inline pipeline from the attributes of a             *)
(* <link data-trunk rel="inline"> element, its asynchronous run, and the   *)
(* finalization of its output into the shared index.html document.         *)
(***************************************************************************)
EXTENDS Integers, Sequences, FiniteSets, TLC

\* Number of <link data-trunk rel="inline"> elements of the build.
NumTasks == 2

\* The ids the build assigns to the pipelines' source elements.
Ids == 1..NumTasks

VARIABLES
    cfg,        \* Arc<RtcBuild>: the shared read-only build configuration
    attrs,      \* attrs[i]: the LinkAttrs handed to Inline::new for id i
    task,       \* task[i]: the Inline value of id i and the position of its run
    result,     \* result[i]: what the JoinHandle of pipeline i yields
    dom,        \* the shared nipper Document
    dom0,       \* the Document as it was when the build started
    phase,      \* the build driver: "build", then "finalize" or "aborted"
    finalizing, \* ids whose finalize future holds the &mut Document
    fin,        \* fin[i]: the finalization of output i
    rIn,        \* the arguments of a ContentType::from_attr_or_ext call
    rOut        \* its result

vars == <<cfg, attrs, task, result, dom, dom0, phase, finalizing, fin, rIn, rOut>>

(***************************************************************************)
(* Values                                                                  *)
(***************************************************************************)

\* Option<T>: None is <<>>, Some(v) is <<v>>.
None == <<>>
Some(v) == <<v>>

\* anyhow errors: the kind of the error and the value its message names.
NoErr == [kind |-> "NoErr", arg |-> ""]
Error(k, a) == [kind |-> k, arg |-> a]

\* The enum ContentType; NoType stands for "not resolved".
ContentTypes == {"Html", "Css", "Js", "Scss"}
NoType == "-"

\* The markup of a <link> element the build tagged with trunk id k.
LinkTag(k) == "<link data-trunk-id=" \o ToString(k) \o ">"

\* The files below html_dir: extension and text.
Files ==
    [p \in {"style.scss", "frag.html", "app.js"} |->
        CASE p = "style.scss" -> [ext |-> "scss", text |-> <<"$v", " ", "rule">>]
          [] p = "frag.html"  -> [ext |-> "html", text |-> <<"p", LinkTag(NumTasks)>>]
          [] p = "app.js"     -> [ext |-> "js",   text |-> <<"js">>]]

\* The href and type attributes a <link> element may carry.
Hrefs == {None, Some("style.scss"), Some("frag.html"), Some("app.js"), Some("gone.css")}
Types == {None, Some("css"), Some("scss"), Some("xml")}

\* Strings the content-type resolver is tried on.
TypeStrings == {"html", "css", "scss", "js", "HTML", "xml", "", "txt"}

(***************************************************************************)
(* ContentType                                                             *)
(***************************************************************************)

\* from_str with the value lowercased before the match.
from_str_folded(s) ==
    CASE s \in {"html", "HTML"} -> [ok |-> TRUE, ct |-> "Html", err |-> NoErr]
      [] s = "css"  -> [ok |-> TRUE, ct |-> "Css",  err |-> NoErr]
      [] s = "scss" -> [ok |-> TRUE, ct |-> "Scss", err |-> NoErr]
      [] s = "js"   -> [ok |-> TRUE, ct |-> "Js",   err |-> NoErr]
      [] OTHER      -> [ok |-> FALSE, ct |-> NoType, err |-> Error("UnknownContentType", s)]

\* impl FromStr for ContentType
from_str(s) ==
    CASE s = "html" -> [ok |-> TRUE, ct |-> "Html", err |-> NoErr]
      [] s = "css"  -> [ok |-> TRUE, ct |-> "Css",  err |-> NoErr]
      [] s = "scss" -> [ok |-> TRUE, ct |-> "Scss", err |-> NoErr]
      [] s = "js"   -> [ok |-> TRUE, ct |-> "Js",   err |-> NoErr]
      [] OTHER      -> [ok |-> FALSE, ct |-> NoType, err |-> Error("UnknownContentType", s)]

\* from_attr_or_ext with both arms parsing the extension.
from_attr_or_ext_ext_only(attr, ext) ==
    IF attr # None THEN from_str(ext) ELSE from_str(ext)

\* from_attr_or_ext falling back to the extension when the attribute is
\* not a content type.
from_attr_or_ext_fallback(attr, ext) ==
    IF attr # None /\ from_str(attr[1]).ok THEN from_str(attr[1]) ELSE from_str(ext)

\* ContentType::from_attr_or_ext
from_attr_or_ext(attr, ext) ==
    IF attr # None THEN from_str(attr[1]) ELSE from_str(ext)

(***************************************************************************)
(* Collaborators: AssetFile, the SASS compiler, the nipper Document        *)
(***************************************************************************)

\* AssetFile::new: the file at `path` below html_dir, or an error naming it.
AssetFile_new(path) ==
    IF path \in DOMAIN Files
    THEN [ok |-> TRUE, path |-> path, ext |-> Files[path].ext, err |-> NoErr]
    ELSE [ok |-> FALSE, path |-> "", ext |-> "", err |-> Error("Resolution", path)]

\* sass_rs::OutputStyle, as chosen from cfg.release; NoStyle: no options built.
NoStyle == "-"
OutputStyle(release) == IF release THEN "Compressed" ELSE "Nested"

\* The tokens the SASS compiler accepts.
ScssAtoms == {"$v", " ", "rule"}

\* sass_rs::compile_string: the compiled text, or the compiler's message.
compile_string(src, style) ==
    IF \E n \in DOMAIN src : src[n] \notin ScssAtoms
    THEN [ok |-> FALSE, text |-> <<>>]
    ELSE [ok |-> TRUE,
          text |-> IF style = "Compressed"
                   THEN SelectSeq(src, LAMBDA a : a \notin {"$v", " "})
                   ELSE SelectSeq(src, LAMBDA a : a # "$v") \o <<"\n">>]

\* Nodes of the Document: text, <link> placeholders, <style> and <script>.
TextNode(a) == [tag |-> "text", id |-> 0, body |-> <<a>>]
LinkNode(k) == [tag |-> "link", id |-> k, body |-> <<>>]
RawNode(tag, body) == [tag |-> tag, id |-> 0, body |-> body]

\* The position of the first a in s, 0 when there is none.
FirstIndex(s, a) ==
    IF \E n \in DOMAIN s : s[n] = a
    THEN CHOOSE n \in DOMAIN s : s[n] = a /\ \A m \in 1..(n - 1) : s[m] # a
    ELSE 0

\* The nodes an HTML fragment parses to: the content of <style> and
\* <script> is raw text up to the matching end tag.
RECURSIVE ParseHtml(_)
ParseHtml(s) ==
    IF s = <<>> THEN <<>>
    ELSE LET h == Head(s)
             t == Tail(s)
         IN  IF h \in {"<style>", "<script>"}
             THEN LET close == IF h = "<style>" THEN "</style>" ELSE "</script>"
                      k == FirstIndex(t, close)
                      body == IF k = 0 THEN t ELSE SubSeq(t, 1, k - 1)
                      rest == IF k = 0 THEN <<>> ELSE SubSeq(t, k + 1, Len(t))
                  IN  <<RawNode(IF h = "<style>" THEN "style" ELSE "script", body)>>
                          \o ParseHtml(rest)
             ELSE IF h \in {"</style>", "</script>"}
             THEN ParseHtml(t)
             ELSE IF \E k \in Ids : h = LinkTag(k)
             THEN <<LinkNode(CHOOSE k \in Ids : h = LinkTag(k))>> \o ParseHtml(t)
             ELSE <<TextNode(h)>> \o ParseHtml(t)

\* super::trunk_id_selector(id) applied by Document::select: the positions
\* of the elements tagged with trunk id `id`.
select(d, id) == {n \in DOMAIN d : d[n].tag = "link" /\ d[n].id = id}

\* The selected nodes removed and the fragment appended to the document.
remove_and_append_html(d, id, html) ==
    SelectSeq(d, LAMBDA n : ~(n.tag = "link" /\ n.id = id))
        \o (IF select(d, id) # {} THEN ParseHtml(html) ELSE <<>>)

\* The fragment inserted after every selected node, which stays in place.
RECURSIVE after_html(_, _, _)
after_html(d, id, html) ==
    IF d = <<>> THEN <<>>
    ELSE <<Head(d)>> \o (IF 1 \in select(d, id) THEN ParseHtml(html) ELSE <<>>)
             \o after_html(Tail(d), id, html)

\* Selection::replace_with_html: every selected node gives way to the nodes
\* of the parsed fragment; an empty selection leaves the document as it is.
RECURSIVE replace_with_html(_, _, _)
replace_with_html(d, id, html) ==
    IF d = <<>> THEN <<>>
    ELSE (IF 1 \in select(d, id) THEN ParseHtml(html) ELSE <<Head(d)>>)
             \o replace_with_html(Tail(d), id, html)

\* index.html after discovery: every pipeline's element is tagged with its id.
TaggedDoc == <<TextNode("h")>> \o [k \in Ids |-> LinkNode(k)] \o <<TextNode("t")>>

\* The documents finalize is handed: the tagged one, and one whose element
\* for id 1 is gone.
Docs == {TaggedDoc, SelectSeq(TaggedDoc, LAMBDA n : ~(n.tag = "link" /\ n.id = 1))}

(***************************************************************************)
(* Inline                                                                  *)
(***************************************************************************)

\* No Inline value: Inline::new was not called yet, or it failed (err).
NoTask(st, e) ==
    [state |-> st, path |-> "", ext |-> "", content_type |-> NoType,
     content |-> <<>>, options |-> NoStyle, compiles |-> 0, err |-> e]

\* Inline::new with a missing href read as the empty path.
Inline_new_optional_href(a) ==
    LET asset == AssetFile_new(IF a.href = None THEN "" ELSE a.href[1])
    IN  IF ~asset.ok
        THEN NoTask("NewFailed", asset.err)
        ELSE LET ct == from_attr_or_ext(a.type, asset.ext)
             IN  IF ~ct.ok
                 THEN NoTask("NewFailed", ct.err)
                 ELSE [state |-> "Created", path |-> asset.path, ext |-> asset.ext,
                       content_type |-> ct.ct, content |-> <<>>,
                       options |-> NoStyle, compiles |-> 0, err |-> NoErr]

\* Inline::new parsing an explicit type attribute before it resolves the
\* asset file.
Inline_new_type_first(a) ==
    IF a.href = None
    THEN NoTask("NewFailed", Error("MissingHref", ""))
    ELSE IF a.type # None /\ ~from_str(a.type[1]).ok
    THEN NoTask("NewFailed", from_str(a.type[1]).err)
    ELSE LET asset == AssetFile_new(a.href[1])
         IN  IF ~asset.ok
             THEN NoTask("NewFailed", asset.err)
             ELSE LET ct == from_attr_or_ext(a.type, asset.ext)
                  IN  IF ~ct.ok
                      THEN NoTask("NewFailed", ct.err)
                      ELSE [state |-> "Created", path |-> asset.path, ext |-> asset.ext,
                            content_type |-> ct.ct, content |-> <<>>,
                            options |-> NoStyle, compiles |-> 0, err |-> NoErr]

\* Inline::new: href is required, the asset file is resolved next, the
\* content type last; the first failure is the result.  (The hrefs of the
\* model have one path segment, so the split on '/' yields the href.)
Inline_new(a) ==
    IF a.href = None
    THEN NoTask("NewFailed", Error("MissingHref", ""))
    ELSE LET asset == AssetFile_new(a.href[1])
         IN  IF ~asset.ok
             THEN NoTask("NewFailed", asset.err)
             ELSE LET ct == from_attr_or_ext(a.type, asset.ext)
                  IN  IF ~ct.ok
                      THEN NoTask("NewFailed", ct.err)
                      ELSE [state |-> "Created", path |-> asset.path, ext |-> asset.ext,
                            content_type |-> ct.ct, content |-> <<>>,
                            options |-> NoStyle, compiles |-> 0, err |-> NoErr]

\* Result<TrunkLinkPipelineOutput>: nothing yet, Ok(InlineOutput) or Err.
NoResult == [kind |-> "None", id |-> 0, content |-> <<>>, content_type |-> NoType, err |-> NoErr]
Ok(i, content, ct) ==
    [kind |-> "Ok", id |-> i, content |-> content, content_type |-> ct, err |-> NoErr]
Err(e) == [kind |-> "Err", id |-> 0, content |-> <<>>, content_type |-> NoType, err |-> e]

\* The build driver is constructing and spawning pipelines: it is neither
\* past its barrier nor aborted.
Building == phase = "build"

\* The build driver constructs the pipeline of element i from its attributes.
New(i) ==
    /\ Building
    /\ task[i].state = "NotCreated"
    /\ \E a \in [href : Hrefs, type : Types] :
          /\ attrs' = [attrs EXCEPT ![i] = a]
          /\ task' = [task EXCEPT ![i] = Inline_new(a)]
    /\ UNCHANGED <<cfg, result, dom, dom0, phase, finalizing, fin, rIn, rOut>>

\* Inline::spawn: the run starts and suspends at the file read.
Spawn(i) ==
    /\ Building
    /\ task[i].state = "Created"
    /\ task' = [task EXCEPT ![i].state = "Running"]
    /\ UNCHANGED <<cfg, attrs, result, dom, dom0, phase, finalizing, fin, rIn, rOut>>

\* The compile decision taken on the file extension.
NeedsCompileByExt(i) == task[i].ext = "scss"

\* `if let ContentType::Scss = self.content_type`
NeedsCompile(i) == task[i].content_type = "Scss"

\* A failure that is made the result of every pipeline still in flight.
FailAll(i, e) ==
    /\ task' = [j \in Ids |->
                   IF j = i \/ task[j].state \in {"Running", "Compiling"}
                   THEN [task[j] EXCEPT !.state = "Failed"] ELSE task[j]]
    /\ result' = [j \in Ids |->
                     IF j = i \/ task[j].state \in {"Running", "Compiling"}
                     THEN Err(e) ELSE result[j]]

\* A failure that still hands on an output, with what content there is.
FailSoft(i, e) ==
    /\ task' = [task EXCEPT ![i].state = "Failed"]
    /\ result' = [result EXCEPT ![i] = Ok(i, task[i].content, task[i].content_type)]

\* A failure after which the pipeline is put back to be spawned again.
FailRetry(i, e) ==
    /\ task' = [task EXCEPT ![i].state = "Created"]
    /\ UNCHANGED result

\* The `?` of run: the error is the result of this pipeline, which ends.
Fail(i, e) ==
    /\ task' = [task EXCEPT ![i].state = "Failed"]
    /\ result' = [result EXCEPT ![i] = Err(e)]

\* An output whose content run has already wrapped in its envelope.
InlineOutputWrapped(i, content) ==
    Ok(i,
       IF task[i].content_type = "Html" THEN content
       ELSE IF task[i].content_type = "Js" THEN <<"<script>">> \o content \o <<"</script>">>
       ELSE <<"<style>">> \o content \o <<"</style>">>,
       task[i].content_type)

\* The InlineOutput run returns: its id, the content and its content type.
InlineOutput(i, content) == Ok(i, content, task[i].content_type)

\* Ok(TrunkLinkPipelineOutput::Inline(..)): the end of a successful run.
Complete(i, content) ==
    /\ task' = [task EXCEPT ![i].state = "Completed", ![i].content = content]
    /\ result' = [result EXCEPT ![i] = InlineOutput(i, content)]

\* A run that splices its content into the document itself as soon as it
\* has read it.
ReadDoneSplicing(i) ==
    /\ task[i].state = "Running"
    /\ \E readOk \in BOOLEAN :
          IF ~readOk
          THEN Fail(i, Error("Io", task[i].path)) /\ UNCHANGED dom
          ELSE LET content == Files[task[i].path].text
               IN  /\ dom' = replace_with_html(dom, i, content)
                   /\ IF NeedsCompile(i)
                      THEN /\ task' = [task EXCEPT ![i].state = "Compiling",
                                                   ![i].content = content,
                                                   ![i].options = OutputStyle(cfg.release),
                                                   ![i].compiles = @ + 1]
                           /\ UNCHANGED result
                      ELSE Complete(i, content)
    /\ UNCHANGED <<cfg, attrs, dom0, phase, finalizing, fin, rIn, rOut>>

\* Inline::run from the return of read_to_string to its next suspension:
\* an I/O error ends the run; Scss content is handed to spawn_blocking with
\* the options chosen from cfg.release; any other content is the output.
ReadDone(i) ==
    /\ task[i].state = "Running"
    /\ \E readOk \in BOOLEAN :
          IF ~readOk
          THEN Fail(i, Error("Io", task[i].path))
          ELSE LET content == Files[task[i].path].text
               IN  IF NeedsCompile(i)
                   THEN /\ task' = [task EXCEPT ![i].state = "Compiling",
                                                ![i].content = content,
                                                ![i].options = OutputStyle(cfg.release),
                                                ![i].compiles = @ + 1]
                        /\ UNCHANGED result
                   ELSE Complete(i, content)
    /\ UNCHANGED <<cfg, attrs, dom, dom0, phase, finalizing, fin, rIn, rOut>>

\* Inline::run from the return of spawn_blocking to its end: the compiled
\* text is the output, a compile error is mapped to an error naming the
\* asset's path, and a panic of the blocking task unwinds through run.
CompileDone(i) ==
    /\ task[i].state = "Compiling"
    /\ \E panicked \in BOOLEAN :
          IF panicked
          THEN /\ task' = [task EXCEPT ![i].state = "Panicked"]
               /\ UNCHANGED result
          ELSE LET r == compile_string(task[i].content, task[i].options)
               IN  IF r.ok
                   THEN Complete(i, r.text)
                   ELSE Fail(i, Error("Compile", task[i].path))
    /\ UNCHANGED <<cfg, attrs, dom, dom0, phase, finalizing, fin, rIn, rOut>>

(***************************************************************************)
(* The build driver's barrier, and InlineOutput::finalize                  *)
(***************************************************************************)

\* No pipeline is under construction or in flight.
AllJoined ==
    \A i \in Ids : task[i].state \in {"NewFailed", "Completed", "Failed", "Panicked"}

\* The driver's join-all barrier between the pipelines and finalization.
JoinAll ==
    /\ phase = "build"
    /\ AllJoined
    /\ phase' = "finalize"
    /\ UNCHANGED <<cfg, attrs, task, result, dom, dom0, finalizing, fin, rIn, rOut>>

\* The surrounding build aborts before the barrier: the driver drops the
\* JoinHandles, so no result is joined and no output is finalized.  The
\* runs are detached, not stopped: they may still take their steps.
Abort ==
    /\ phase = "build"
    /\ phase' = "aborted"
    /\ UNCHANGED <<cfg, attrs, task, result, dom, dom0, finalizing, fin, rIn, rOut>>

\* The finalization of an output: not called, the future pending, or done
\* with the markup it built, the number of nodes it selected, its result
\* and its place in the order of the finalize calls.
NoFin == [state |-> "None", html |-> <<>>, hits |-> 0, res |-> "-", nth |-> 0]

\* The number of finalize calls that have returned.
Finalized == Cardinality({j \in Ids : fin[j].state \notin {"None", "Pending"}})

\* A finalize future that shares the document with the others.
BorrowDomShared(i) ==
    /\ finalizing' = finalizing \cup {i}

\* `dom: &mut Document`: the finalize future borrows the document
\* exclusively until it completes.
BorrowDom(i) ==
    /\ finalizing = {}
    /\ finalizing' = {i}

\* The driver is past its barrier and applies the outputs.
Joined == phase = "finalize"

\* The driver calls finalize on a joined pipeline's output, which is moved
\* into the call; the future it gets borrows the document.
FinalizeCall(i) ==
    /\ Joined
    /\ result[i].kind = "Ok"
    /\ fin[i].state = "None"
    /\ BorrowDom(i)
    /\ fin' = [fin EXCEPT ![i].state = "Pending"]
    /\ UNCHANGED <<cfg, attrs, task, result, dom, dom0, phase, rIn, rOut>>

\* Markup with Html falling into the style arm.
MarkupStyleHtml(out) ==
    CASE out.content_type \in {"Html", "Css", "Scss"} ->
            <<"<style>">> \o out.content \o <<"</style>">>
      [] out.content_type = "Js" -> <<"<script>">> \o out.content \o <<"</script>">>

\* The markup InlineOutput::finalize builds from the output.
Markup(out) ==
    CASE out.content_type = "Html" -> out.content
      [] out.content_type \in {"Css", "Scss"} -> <<"<style>">> \o out.content \o <<"</style>">>
      [] out.content_type = "Js" -> <<"<script>">> \o out.content \o <<"</script>">>

\* finalize returning an error when it selects no node.
FinalizeChecked(i) ==
    /\ i \in finalizing
    /\ LET html == Markup(result[i])
           hits == Cardinality(select(dom, result[i].id))
       IN  /\ dom' = replace_with_html(dom, result[i].id, html)
           /\ fin' = [fin EXCEPT ![i] = [state |-> IF hits = 0 THEN "Failed" ELSE "Applied",
                                         html |-> html, hits |-> hits,
                                         res |-> IF hits = 0 THEN "Err" ELSE "Ok",
                                         nth |-> Finalized + 1]]
    /\ finalizing' = finalizing \ {i}
    /\ UNCHANGED <<cfg, attrs, task, result, dom0, phase, rIn, rOut>>

\* The body of InlineOutput::finalize: it has no await, so one poll builds
\* the markup, replaces the selected nodes and returns Ok(()).
Finalize(i) ==
    /\ i \in finalizing
    /\ LET html == Markup(result[i])
       IN  /\ dom' = replace_with_html(dom, result[i].id, html)
           /\ fin' = [fin EXCEPT ![i] = [state |-> "Applied", html |-> html,
                                         hits |-> Cardinality(select(dom, result[i].id)),
                                         res |-> "Ok", nth |-> Finalized + 1]]
    /\ finalizing' = finalizing \ {i}
    /\ UNCHANGED <<cfg, attrs, task, result, dom0, phase, rIn, rOut>>

(***************************************************************************)
(* Specifications                                                          *)
(***************************************************************************)

\* ContentType::from_attr_or_ext was not called.
Unresolved == [ok |-> FALSE, ct |-> NoType, err |-> NoErr]

Init ==
    /\ cfg \in [release : BOOLEAN]
    /\ attrs = [i \in Ids |-> [href |-> None, type |-> None]]
    /\ task = [i \in Ids |-> NoTask("NotCreated", NoErr)]
    /\ result = [i \in Ids |-> NoResult]
    /\ dom \in Docs
    /\ dom0 = dom
    /\ phase = "build"
    /\ finalizing = {}
    /\ fin = [i \in Ids |-> NoFin]
    /\ rIn = [attr |-> None, ext |-> ""]
    /\ rOut = Unresolved

Next ==
    \/ \E i \in Ids : New(i)
    \/ \E i \in Ids : Spawn(i)
    \/ \E i \in Ids : ReadDone(i)
    \/ \E i \in Ids : CompileDone(i)
    \/ JoinAll
    \/ Abort
    \/ \E i \in Ids : FinalizeCall(i)
    \/ \E i \in Ids : Finalize(i)

Spec == Init /\ [][Next]_vars

\* The executor polls every spawned run again once the file read or the
\* blocking task it awaits has completed.
SpecFair ==
    Spec /\ \A i \in Ids : WF_vars(ReadDone(i)) /\ WF_vars(CompileDone(i))

\* A call of ContentType::from_attr_or_ext on arbitrary arguments.
Resolve ==
    /\ rOut = Unresolved
    /\ rOut' = from_attr_or_ext(rIn.attr, rIn.ext)
    /\ UNCHANGED <<cfg, attrs, task, result, dom, dom0, phase, finalizing, fin, rIn>>

InitResolve ==
    /\ cfg = [release |-> FALSE]
    /\ attrs = [i \in Ids |-> [href |-> None, type |-> None]]
    /\ task = [i \in Ids |-> NoTask("NotCreated", NoErr)]
    /\ result = [i \in Ids |-> NoResult]
    /\ dom = TaggedDoc
    /\ dom0 = dom
    /\ phase = "build"
    /\ finalizing = {}
    /\ fin = [i \in Ids |-> NoFin]
    /\ rIn \in [attr : {None} \cup {Some(t) : t \in TypeStrings}, ext : TypeStrings]
    /\ rOut = Unresolved

SpecResolve == InitResolve /\ [][Resolve]_vars

(***************************************************************************)
(* Properties                                                              *)
(***************************************************************************)

\* The strings that name a content type, and the type each names.
Supported == {"html", "css", "scss", "js"}
Named(t) ==
    CASE t = "html" -> "Html" [] t = "css" -> "Css" [] t = "scss" -> "Scss" [] t = "js" -> "Js"

\* Pipeline i is constructed and its run has not ended.
InFlight(i) == task[i].state \in {"Created", "Running", "Compiling"}

\* C1: while a pipeline is Created, Running or Compiling the document is the
\* one the build started with; a step of new, spawn or run leaves the
\* document alone; a step that changes it is the completion of a pending
\* finalize; and at most one finalize is in progress.
C1_OnlyFinalizeMutatesDom ==
    /\ [](Cardinality(finalizing) <= 1)
    /\ []((\E i \in Ids : InFlight(i)) => dom = dom0)
    /\ [][(task' # task \/ result' # result) => dom' = dom]_vars
    /\ [][dom' # dom =>
            \E i \in finalizing : /\ fin[i].state = "Pending"
                                  /\ fin'[i].state = "Applied"
                                  /\ finalizing' = finalizing \ {i}]_vars

\* One finalize has changed the document and the next one is in progress.
C1_Witness ==
    \E i, j \in Ids : /\ fin[i].state = "Applied" /\ dom # dom0
                      /\ j \in finalizing /\ fin[j].state = "Pending"

\* C2: the markup finalize hands to replace_with_html is the content itself
\* for Html, "<style>" content "</style>" for Css and Scss, "<script>"
\* content "</script>" for Js: one envelope, none for Html.
C2_MarkupEnvelope ==
    \A i \in Ids :
        fin[i].state = "Applied" =>
            LET c == result[i].content
                m == fin[i].html
            IN  /\ result[i].content_type = "Html" => m = c
                /\ result[i].content_type \in {"Css", "Scss"} =>
                      /\ Len(m) = Len(c) + 2
                      /\ m[1] = "<style>" /\ m[Len(m)] = "</style>"
                      /\ SubSeq(m, 2, Len(m) - 1) = c
                /\ result[i].content_type = "Js" =>
                      /\ Len(m) = Len(c) + 2
                      /\ m[1] = "<script>" /\ m[Len(m)] = "</script>"
                      /\ SubSeq(m, 2, Len(m) - 1) = c
                /\ result[i].content_type \in ContentTypes

\* In one build an Html output and a style-wrapped output were finalized
\* into their placeholders.
C2_Witness ==
    \E i, j \in Ids : /\ fin[i].state = "Applied" /\ result[i].content_type = "Html"
                      /\ fin[i].hits = 1
                      /\ fin[j].state = "Applied" /\ result[j].content_type \in {"Css", "Scss"}
                      /\ fin[j].hits = 1

C4_ExplicitTypeWins ==
    (rOut # Unresolved /\ rIn.attr # None /\ rIn.attr[1] \in Supported) =>
        rOut.ok /\ rOut.ct = Named(rIn.attr[1]) /\ rOut.err = NoErr

\* The explicit type "css" was resolved next to the unsupported extension
\* "txt".
C4_Witness ==
    /\ rOut.ok /\ rIn.attr = Some("css") /\ rIn.ext = "txt"

\* C5: a string outside {"html","css","scss","js"} is no content type: with
\* no explicit type the extension alone decides, and an unsupported
\* explicit type fails with the error naming it even when the extension is
\* a supported one.
C5_UnknownTypeFails ==
    rOut # Unresolved =>
        /\ rIn.attr = None =>
              IF rIn.ext \in Supported
              THEN rOut.ok /\ rOut.ct = Named(rIn.ext)
              ELSE ~rOut.ok /\ rOut.err = Error("UnknownContentType", rIn.ext)
        /\ (rIn.attr # None /\ rIn.attr[1] \notin Supported) =>
              ~rOut.ok /\ rOut.err = Error("UnknownContentType", rIn.attr[1])

\* "HTML" was rejected although the extension is "html".
C5_Witness ==
    /\ rIn.attr = Some("HTML") /\ rIn.ext = "html"
    /\ ~rOut.ok /\ rOut.err.kind = "UnknownContentType"

\* C6: Inline::new on attributes without href fails with the missing-href
\* error whatever the type attribute is; there is no Inline value, so no
\* run, no result and no finalization for that id.
C6_MissingHref ==
    \A i \in Ids :
        (task[i].state # "NotCreated" /\ attrs[i].href = None) =>
            /\ task[i].state = "NewFailed"
            /\ task[i].err = Error("MissingHref", "")
            /\ result[i] = NoResult
            /\ fin[i] = NoFin
            /\ i \notin finalizing

\* A build went through finalization with a pipeline that was never
\* created for want of href, its type attribute being a valid one.
C6_Witness ==
    \E i, j \in Ids : /\ task[i].state = "NewFailed" /\ attrs[i].href = None
                      /\ attrs[i].type = Some("css")
                      /\ fin[j].state = "Applied"

\* C7: Inline::new on attributes whose type is outside the supported set
\* fails and creates no Inline value; when the href is present and names a
\* file, so that the content type is resolved at all, the error is the
\* unknown-content-type error naming the type attribute's value.
C7_UnknownTypeAttr ==
    \A i \in Ids :
        (/\ task[i].state # "NotCreated"
         /\ attrs[i].type # None
         /\ attrs[i].type[1] \notin Supported) =>
            /\ task[i].state = "NewFailed"
            /\ result[i] = NoResult
            /\ fin[i] = NoFin
            /\ (attrs[i].href # None /\ attrs[i].href[1] \in DOMAIN Files) =>
                  task[i].err = Error("UnknownContentType", attrs[i].type[1])

\* Inline::new failed on type "xml" for a file whose extension is a
\* supported one.
C7_Witness ==
    \E i \in Ids : /\ attrs[i] = [href |-> Some("style.scss"), type |-> Some("xml")]
                   /\ task[i].state = "NewFailed"
                   /\ task[i].err = Error("UnknownContentType", "xml")
                   /\ phase = "finalize"

\* C8: the output of a successful run carries the pipeline's id, the
\* content type resolved at construction, and the content without an
\* envelope: the file's text for Html, Css and Js, the compiler's result on
\* the file's text for Scss.
C8_RunOutput ==
    \A i \in Ids :
        result[i].kind = "Ok" =>
            LET text == Files[attrs[i].href[1]].text
                ct == from_attr_or_ext(attrs[i].type, Files[attrs[i].href[1]].ext).ct
            IN  /\ result[i].id = i
                /\ result[i].content_type = ct
                /\ task[i].content_type = ct
                /\ ct # "Scss" => result[i].content = text
                /\ ct = "Scss" =>
                      LET r == compile_string(text, IF cfg.release THEN "Compressed"
                                                                   ELSE "Nested")
                      IN  r.ok /\ result[i].content = r.text
                /\ \A n \in DOMAIN result[i].content :
                      result[i].content[n] \notin
                          {"<style>", "</style>", "<script>", "</script>"}

\* Two runs have succeeded, one with compiled Scss and one with Css given
\* by the type attribute.
C8_Witness ==
    \E i, j \in Ids : /\ result[i].kind = "Ok" /\ result[i].content_type = "Scss"
                      /\ result[i].content # Files["style.scss"].text
                      /\ result[j].kind = "Ok" /\ result[j].content_type = "Css"
                      /\ result[j].content = Files[task[j].path].text

\* The run of pipeline i got as far as the test of its content type.
PastRead(i) ==
    \/ task[i].state \in {"Compiling", "Completed", "Panicked"}
    \/ task[i].state = "Failed" /\ result[i].err.kind # "Io"

\* C9: a run that has read its file hands it to the compiler exactly when
\* the resolved content type is Scss, whatever the extension is; no run
\* compiles twice or compiles another type; the output style is Compressed
\* exactly when cfg.release is set and the default (Nested) otherwise.
\* {href: "style.scss"} without type and without release resolves to Scss,
\* compiles with the default style and finalizes as a style element.
C9_CompileIffScss ==
    \A i \in Ids :
        /\ task[i].compiles \in {0, 1}
        /\ task[i].compiles = 1 =>
              /\ task[i].content_type = "Scss"
              /\ PastRead(i)
              /\ task[i].options = (IF cfg.release THEN "Compressed" ELSE "Nested")
        /\ task[i].compiles = 0 => task[i].options = NoStyle
        /\ PastRead(i) => (task[i].compiles = 1 <=> task[i].content_type = "Scss")
        /\ (/\ attrs[i] = [href |-> Some("style.scss"), type |-> None]
            /\ ~cfg.release
            /\ task[i].state # "NotCreated") =>
              /\ task[i].content_type = "Scss"
              /\ task[i].state = "Completed" =>
                    /\ task[i].options = "Nested"
                    /\ result[i].content = <<" ", "rule", "\n">>
              /\ fin[i].state = "Applied" =>
                    fin[i].html = <<"<style>", " ", "rule", "\n", "</style>">>

\* {href: "style.scss"} was built without release and finalized, next to a
\* .scss file inlined as "css" that was not compiled.
C9_Witness ==
    \E i, j \in Ids : /\ attrs[i] = [href |-> Some("style.scss"), type |-> None]
                      /\ ~cfg.release
                      /\ fin[i].state = "Applied"
                      /\ attrs[j] = [href |-> Some("style.scss"), type |-> Some("css")]
                      /\ task[j].state = "Completed" /\ task[j].compiles = 0

\* The result pipeline i reaches on its own attributes, file and cfg when
\* neither the read nor the blocking task fails.
OwnOutcome(i) ==
    LET text == Files[task[i].path].text
    IN  IF task[i].content_type # "Scss"
        THEN Ok(i, text, task[i].content_type)
        ELSE LET r == compile_string(text, OutputStyle(cfg.release))
             IN  IF r.ok THEN Ok(i, r.text, "Scss")
                 ELSE Err(Error("Compile", task[i].path))

\* C10: under every interleaving, a pipeline's result is a function of its
\* own file, content type and cfg or an error of its own read, naming its
\* own path; a step gives a result to one pipeline at most, the one whose
\* run took the step; and a result, once there, is never changed by a run.
C10_Independent ==
    /\ [](\A i \in Ids :
            /\ task[i].state = "Completed" => result[i] = OwnOutcome(i)
            /\ task[i].state = "Failed" =>
                  result[i] \in {OwnOutcome(i), Err(Error("Io", task[i].path))}
                      /\ result[i].kind = "Err"
            /\ task[i].state \notin {"Completed", "Failed"} => result[i] = NoResult)
    /\ [][\A j \in Ids : result[j] # NoResult => result'[j] = result[j]]_vars
    /\ [][\A i, j \in Ids :
            (i # j /\ task'[i] # task[i]) =>
                task'[j] = task[j] /\ result'[j] = result[j]]_vars

\* Before the barrier, one run has failed and a sibling run has completed
\* with its own output.
C10_Witness ==
    \E i, j \in Ids : /\ i # j
                      /\ task[i].state = "Failed" /\ result[i].kind = "Err"
                      /\ task[j].state = "Completed" /\ result[j].kind = "Ok"
                      /\ phase = "build"

\* The task states of the spec's state machine a run may pass through, in
\* the order it passes through them, and the steps it allows.
Lifecycle ==
    {<<"NotCreated", "Created">>, <<"NotCreated", "NewFailed">>,
     <<"Created", "Running">>,
     <<"Running", "Compiling">>, <<"Running", "Completed">>, <<"Running", "Failed">>,
     <<"Compiling", "Completed">>, <<"Compiling", "Failed">>}

\* C11 as stated: a task moves only along Created -> Running ->
\* [Compiling] -> Completed | Failed; Compiling is entered from Running and
\* for Scss only; Completed and Failed are left by no step; a finalization
\* starts (Pending) and ends (Applied or Failed) only for a Completed task.
C11_Original ==
    [][\A i \in Ids :
          /\ task'[i].state # task[i].state =>
                /\ <<task[i].state, task'[i].state>> \in Lifecycle
                /\ task'[i].state = "Compiling" => task[i].content_type = "Scss"
          /\ task[i].state \in {"Completed", "Failed"} => task'[i] = task[i]
          /\ fin'[i] # fin[i] =>
                /\ task[i].state = "Completed"
                /\ <<fin[i].state, fin'[i].state>> \in
                      {<<"None", "Pending">>, <<"Pending", "Applied">>,
                       <<"Pending", "Failed">>}]_vars

\* C12: once the build has aborted before the barrier, with pipelines
\* created, reading or compiling, the document is the one the build started
\* with and stays so: no finalize is called or pending, whatever the
\* dropped runs still do.
C12_AbortLeavesDom ==
    phase = "aborted" =>
        /\ dom = dom0
        /\ finalizing = {}
        /\ \A i \in Ids : fin[i] = NoFin

\* The build aborted with one run compiling and with the output of
\* another never applied to its placeholder.
C12_Witness ==
    /\ phase = "aborted"
    /\ \E i, j \in Ids : /\ task[i].state = "Compiling"
                         /\ task[j].state = "Completed" /\ result[j].kind = "Ok"
                         /\ select(dom, j) # {}

\* C13 as stated: whatever way the blocking task ends, compiled text,
\* compile error or scheduling failure, the run that awaited it ends
\* Completed or Failed with a Result of its own.
C13_Original ==
    \A i \in Ids :
        (task[i].compiles = 1 /\ task[i].state # "Compiling") =>
            /\ task[i].state \in {"Completed", "Failed"}
            /\ result[i].kind \in {"Ok", "Err"}

\* C14: a run that fails produces no output: a failed read leaves the
\* compiler uninvoked, a failed compile gives an error naming the asset's
\* path, and nothing is finalized for a failed pipeline.
C14_FailureEndsRun ==
    \A i \in Ids :
        task[i].state = "Failed" =>
            /\ result[i].kind = "Err"
            /\ result[i].content = <<>>
            /\ result[i].err.kind \in {"Io", "Compile"}
            /\ result[i].err.kind = "Io" =>
                  task[i].compiles = 0 /\ task[i].options = NoStyle
            /\ result[i].err.kind = "Compile" =>
                  /\ result[i].err.arg = attrs[i].href[1]
                  /\ task[i].compiles = 1
                  /\ task[i].content_type = "Scss"
            /\ fin[i] = NoFin
            /\ i \notin finalizing

\* The build is past its barrier with a Scss pipeline whose read failed and
\* a pipeline whose compilation failed.
C14_Witness ==
    /\ phase = "finalize"
    /\ \E i, j \in Ids : /\ task[i].state = "Failed" /\ result[i].err.kind = "Io"
                         /\ task[i].content_type = "Scss"
                         /\ task[j].state = "Failed" /\ result[j].err.kind = "Compile"

\* Every output of the build has been finalized.
AllApplied ==
    /\ phase = "finalize"
    /\ finalizing = {}
    /\ \A i \in Ids : result[i].kind = "Ok" => fin[i].state = "Applied"

\* The document after the finalize calls of the outputs with ids k and up,
\* applied to d one at a time in ascending order of the ids.
RECURSIVE AscendingFrom(_, _)
AscendingFrom(d, k) ==
    IF k > NumTasks THEN d
    ELSE AscendingFrom(IF result[k].kind = "Ok"
                       THEN replace_with_html(d, result[k].id, Markup(result[k]))
                       ELSE d,
                       k + 1)

\* No Html output's content holds an element tagged with another
\* pipeline's id.
NoForeignPlaceholder ==
    \A i \in Ids :
        (result[i].kind = "Ok" /\ result[i].content_type = "Html") =>
            \A n \in DOMAIN result[i].content :
                \A k \in Ids \ {i} : result[i].content[n] # LinkTag(k)

C16_FinalizeFrame ==
    [][\A i \in finalizing :
          fin'[i].state # "Pending" =>
              LET frag == ParseHtml(fin'[i].html)
                  sel == select(dom, i)
                  Shift(n) == Cardinality({m \in sel : m < n}) * (Len(frag) - 1)
              IN  /\ Len(dom') = Len(dom) + Cardinality(sel) * (Len(frag) - 1)
                  /\ \A n \in DOMAIN dom :
                        IF n \in sel
                        THEN SubSeq(dom', n + Shift(n), n + Shift(n) + Len(frag) - 1) = frag
                        ELSE dom'[n + Shift(n)] = dom[n]
                  /\ \A j \in Ids \ {i} :
                        Cardinality(select(dom', j)) =
                            Cardinality(select(dom, j))
                                + Cardinality(sel) * Cardinality(select(frag, j))
                  /\ Cardinality(select(dom', i)) =
                        Cardinality(sel) * Cardinality(select(frag, i))]_vars

\* A finalize has replaced the one node of its id while the placeholder of
\* another output, not yet finalized, is still in the document.
C16_Witness ==
    \E i, j \in Ids : /\ i # j
                      /\ fin[i].state = "Applied" /\ fin[i].hits = 1
                      /\ select(dom, i) = {}
                      /\ result[j].kind = "Ok" /\ fin[j].state = "None"
                      /\ select(dom, j) # {}

\* C17: Inline::new reports the first failing check of href present, asset
\* file resolved, content type resolved, in this order: a missing href
\* whatever the files and the type, an unresolvable file even next to an
\* unsupported type, the unknown content type only for a resolved file.
C17_CheckOrder ==
    \A i \in Ids :
        task[i].state # "NotCreated" =>
            LET a == attrs[i]
            IN  IF a.href = None
                THEN task[i].state = "NewFailed" /\ task[i].err = Error("MissingHref", "")
                ELSE IF a.href[1] \notin DOMAIN Files
                THEN /\ task[i].state = "NewFailed"
                     /\ task[i].err = Error("Resolution", a.href[1])
                ELSE IF (IF a.type # None THEN a.type[1] ELSE Files[a.href[1]].ext)
                            \notin Supported
                THEN /\ task[i].state = "NewFailed"
                     /\ task[i].err.kind = "UnknownContentType"
                     /\ task[i].err.arg =
                            (IF a.type # None THEN a.type[1] ELSE Files[a.href[1]].ext)
                ELSE /\ task[i].state # "NewFailed"
                     /\ task[i].err = NoErr
                     /\ task[i].path = a.href[1]

\* Inline::new was called with an unresolvable href and the unsupported
\* type "xml", and reported the resolution error.
C17_Witness ==
    \E i \in Ids : /\ attrs[i] = [href |-> Some("gone.css"), type |-> Some("xml")]
                   /\ task[i].state = "NewFailed"
                   /\ task[i].err = Error("Resolution", "gone.css")

\* How far a pipeline is: a run moves forward only.
Rank(st) ==
    CASE st = "NotCreated" -> 0
      [] st = "Created"    -> 1
      [] st = "Running"    -> 2
      [] st = "Compiling"  -> 3
      [] OTHER             -> 4

\* C18: under fair scheduling a spawned run ends, Completed or Failed,
\* unless its blocking task does not return but panics; every step of a
\* run moves it forward, so it resumes at most twice after spawn, once
\* from the file read and once from the blocking task, and never starts
\* over.
C18_RunTerminates ==
    /\ \A i \in Ids :
          (task[i].state \in {"Running", "Compiling"})
              ~> (task[i].state \in {"Completed", "Failed", "Panicked"})
    /\ [][\A i \in Ids :
            task'[i].state # task[i].state =>
                /\ Rank(task'[i].state) > Rank(task[i].state)
                /\ task[i].state \notin {"Completed", "Failed"}]_vars

\* A spawned run has completed after both of its suspensions, and a
\* sibling's run has failed.
C18_Witness ==
    \E i, j \in Ids : /\ task[i].state = "Completed" /\ task[i].compiles = 1
                      /\ task[j].state = "Failed"

====
